---- MODULE Spec2Model ----
(***************************************************************************)
(* compression-detector: brute-force detection of the compression format   *)
(* of a byte blob (src/main.go).                                           *)
(*                                                                         *)
(* Abstraction of the data.  The bytes of the input never influence the    *)
(* control flow of main.go directly: they are only handed to the decoders  *)
(* of the registry, one suffix contents[startByte:] at a time.  The input  *)
(* is therefore represented by its length (len) and by what the decoding   *)
(* libraries do on each of its suffixes (streams): a record                *)
(* [at, remaining, out] in streams[name] says that the decoder behind      *)
(* registry entry `name`, run on contents[at:], finishes without error,    *)
(* leaves `remaining` bytes unread in the bytes.Buffer and produces `out`  *)
(* bytes.  On every other suffix the decoder reports an error.  Every      *)
(* target of one run that can be read yields these same contents; whether  *)
(* a target can be opened and read is decided by the environment when main *)
(* gets to it.                                                             *)
(***************************************************************************)
EXTENDS Integers, Sequences, FiniteSets, TLC

\* ---------------------------------------------------------------- bounds
MaxLen == 2        \* longest input, in bytes
MaxOut == 1        \* longest decoder output, in bytes
MaxArgs == 2       \* number of command-line targets of a run

\* --strip-limit default, main.go:61
DefaultStripLimit == 100

\* ------------------------------------------------------------- registry
\* Names of var decompressionFunctions, in registration order.
decompressionFunctions ==
  << "bzip2", "gzip", "lzo", "lz4",
     "lzw-lsb-2", "lzw-lsb-3", "lzw-lsb-4", "lzw-lsb-5", "lzw-lsb-6",
     "lzw-lsb-7", "lzw-lsb-8",
     "lzw-msb-2", "lzw-msb-3", "lzw-msb-4", "lzw-msb-5", "lzw-msb-6",
     "lzw-msb-7", "lzw-msb-8",
     "snappy-block", "snappy-stream", "zlib" >>

Names == { decompressionFunctions[i] : i \in 1..Len(decompressionFunctions) }

\* Entries for which the inputs of the model may carry a valid stream: the
\* first entry, the entry that is written differently (snappy-block) and
\* the last one.  The decoders of all other entries reject every input of
\* the model.
Codecs == { "bzip2", "snappy-block", "zlib" }

VARIABLES
  flagLimit,   \* value of --strip-limit
  len,         \* len(contents) of the readable file
  streams,     \* behaviour of the decoders on the suffixes of contents
  argi,        \* index in args of the target being processed (len(args) = MaxArgs)
  pc,          \* position: "loop", "detect", "return", "done", "panic"
  stripLimit,  \* detectCompression's stripLimit after normalisation
  startByte,   \* outer loop variable of detectCompression
  results,     \* results slice of detectCompression
  tried,       \* offsets sliced so far by the current call (history)
  dumped,      \* what spew.Dump has printed, one entry per scanned target
  cause        \* what panicked: "none", "open", "read", "slice"

vars == << flagLimit, len, streams, argi, pc, stripLimit, startByte,
           results, tried, dumped, cause >>

\* ------------------------------------------------------- input domains
\* What the decoder of entry nm can do on contents[at:] of an n-byte input
\* when it does not fail.  The decoders of Codecs all reject the empty
\* slice (at = n); the output may be empty.  The output of a stream that
\* is followed by left-over bytes is kept at one byte: no closure looks at
\* the output before the buffer length.
\* snappy.Decode takes the slice itself (no reader): the block format is
\* decoded to the end of src, so no byte is ever left over.
StreamSet(nm, n) ==
  { s \in [ at : 0..n, remaining : 0..n, out : 0..MaxOut ] :
      /\ s.at < n
      /\ s.remaining <= n - s.at
      /\ (s.remaining > 0 => s.out = 1)
      /\ (nm = "snappy-block" => s.remaining = 0) }

\* An input holds at most one stream per entry.
StreamOptions(nm, n) == { {} } \cup { {s} : s \in StreamSet(nm, n) }

\* The inputs of length n: for each entry of Codecs, the suffixes its
\* decoder finishes on without error.
StreamChoices(n) ==
  { f \in [ Codecs -> UNION { StreamOptions(nm, n) : nm \in Codecs } ] :
      \A nm \in Codecs : f[nm] \in StreamOptions(nm, n) }

Limits == { -1 } \cup 0..MaxLen \cup { DefaultStripLimit }

\* ------------------------------------------------- decoding libraries
\* Outcome of the decoder behind entry `name` on contents[at:]: its error,
\* buffer.Len() afterwards, and the number of bytes it produced.
Decode(name, at) ==
  IF name \in Codecs /\ \E s \in streams[name] : s.at = at
  THEN LET s == CHOOSE t \in streams[name] : t.at = at
       IN  [ err |-> FALSE, remaining |-> s.remaining, out |-> s.out ]
  ELSE [ err |-> TRUE, remaining |-> 0, out |-> 0 ]

\* (variant: no closure looks at buffer.Len())
DecompressUnchecked(name, at) ==
  LET d == Decode(name, at)
  IN  IF d.err
      THEN [ err |-> TRUE, out |-> 0, lenChecked |-> FALSE ]
      ELSE [ err |-> FALSE, out |-> d.out, lenChecked |-> FALSE ]

\* The Decompress closure of entry `name` applied to contents[at:].
\* lenChecked records whether the closure compared buffer.Len() with 0.
\* snappy-block returns snappy.Decode's result as it is; every other entry
\* returns the decoder's error, then rejects a non-empty buffer.
Decompress(name, at) ==
  LET d == Decode(name, at)
  IN  IF name = "snappy-block"
      THEN [ err |-> d.err, out |-> IF d.err THEN 0 ELSE d.out, lenChecked |-> FALSE ]
      ELSE IF d.err
      THEN [ err |-> TRUE, out |-> 0, lenChecked |-> FALSE ]
      ELSE IF d.remaining > 0
      THEN [ err |-> TRUE, out |-> 0, lenChecked |-> TRUE ]
      ELSE [ err |-> FALSE, out |-> d.out, lenChecked |-> TRUE ]

\* ----------------------------------------------------- detectCompression
\* (variant: the unlimited sweep also covers offset len(contents))
EffectiveLimitOffByOne(limit, n) == IF limit < 0 THEN n + 1 ELSE limit

\* if stripLimit < 0 { stripLimit = len(contents) }
EffectiveLimit(limit, n) == IF limit < 0 THEN n ELSE limit

\* (variant: the results slice outlives the call)
KeepResults(old) == old

\* results := []DecompressionResult{}
InitialResults(old) == << >>

\* (variant: the sweep includes offset stripLimit)
LoopCondInclusive(sb, limit) == sb <= limit

\* startByte < stripLimit
LoopCond(sb, limit) == sb < limit

\* err == nil and len(decompressedBytes) > 0
Qualifies(r) == ~r.err /\ r.out > 0

\* (variant: CompressedSize is the size of the whole input)
NewResultWholeSize(name, at, n, out) ==
  [ Name |-> name, StartByte |-> at, CompressedSize |-> n,
    DecompressedSize |-> out ]

\* The DecompressionResult literal; n is len(contents).
NewResult(name, at, n, out) ==
  [ Name |-> name, StartByte |-> at, CompressedSize |-> n - at,
    DecompressedSize |-> out ]

\* (variant: the inner loop stops at the first success)
RECURSIVE InnerLoopFirstOnly(_, _, _)
InnerLoopFirstOnly(i, at, acc) ==
  IF i > Len(decompressionFunctions) THEN acc
  ELSE LET name == decompressionFunctions[i]
           r == Decompress(name, at)
       IN  IF Qualifies(r)
           THEN Append(acc, NewResult(name, at, len, r.out))
           ELSE InnerLoopFirstOnly(i + 1, at, acc)

\* for _, decompressionInfo := range decompressionFunctions { ... },
\* from entry i on, acc being the results slice.
RECURSIVE InnerLoop(_, _, _)
InnerLoop(i, at, acc) ==
  IF i > Len(decompressionFunctions) THEN acc
  ELSE LET name == decompressionFunctions[i]
           r == Decompress(name, at)
       IN  InnerLoop(i + 1, at,
                     IF Qualifies(r)
                     THEN Append(acc, NewResult(name, at, len, r.out))
                     ELSE acc)

\* (variant: the sweep goes on after a successful offset)
BreakNever(res) == FALSE

\* if len(results) > 0 { break }
Break(res) == Len(res) > 0

\* ---------------------------------------------------------------- Init
Init ==
  /\ len \in 0..MaxLen
  /\ streams \in StreamChoices(len)
  /\ flagLimit \in Limits
  /\ argi = 1
  /\ pc = "loop"
  /\ stripLimit = flagLimit
  /\ startByte = 0
  /\ results = << >>
  /\ tried = << >>
  /\ dumped = << >>
  /\ cause = "none"

\* ------------------------------------------------------------- actions
\* os.Open fails on the current target: panic(err).
OpenFail ==
  /\ pc = "loop" /\ argi <= MaxArgs
  /\ pc' = "panic" /\ cause' = "open"
  /\ UNCHANGED << flagLimit, len, streams, argi, stripLimit, startByte,
                  results, tried, dumped >>

\* The target opens but ioutil.ReadAll fails: panic(err).
ReadFail ==
  /\ pc = "loop" /\ argi <= MaxArgs
  /\ pc' = "panic" /\ cause' = "read"
  /\ UNCHANGED << flagLimit, len, streams, argi, stripLimit, startByte,
                  results, tried, dumped >>

\* The target is read and detectCompression(contents, stripLimit) entered.
CallDetect ==
  /\ pc = "loop" /\ argi <= MaxArgs
  /\ results' = InitialResults(results)
  /\ stripLimit' = EffectiveLimit(flagLimit, len)
  /\ startByte' = 0
  /\ tried' = << >>
  /\ pc' = "detect"
  /\ UNCHANGED << flagLimit, len, streams, argi, dumped, cause >>

\* One iteration of the outer loop whose slice expression is in range.
Iterate ==
  /\ pc = "detect" /\ LoopCond(startByte, stripLimit) /\ startByte <= len
  /\ LET r == InnerLoop(1, startByte, results)
     IN  /\ results' = r
         /\ IF Break(r)
            THEN pc' = "return" /\ startByte' = startByte
            ELSE pc' = "detect" /\ startByte' = startByte + 1
  /\ tried' = Append(tried, startByte)
  /\ UNCHANGED << flagLimit, len, streams, argi, stripLimit, dumped, cause >>

\* contents[startByte:] with startByte > len(contents): run-time panic.
SliceOutOfRange ==
  /\ pc = "detect" /\ LoopCond(startByte, stripLimit) /\ startByte > len
  /\ pc' = "panic" /\ cause' = "slice"
  /\ UNCHANGED << flagLimit, len, streams, argi, stripLimit, startByte,
                  results, tried, dumped >>

\* The loop condition startByte < stripLimit fails.
LoopExit ==
  /\ pc = "detect" /\ ~LoopCond(startByte, stripLimit)
  /\ pc' = "return"
  /\ UNCHANGED << flagLimit, len, streams, argi, stripLimit, startByte,
                  results, tried, dumped, cause >>

\* return results; spew.Dump(results); next target.
Dump ==
  /\ pc = "return"
  /\ dumped' = Append(dumped, [ arg |-> argi, results |-> results ])
  /\ argi' = argi + 1
  /\ pc' = "loop"
  /\ UNCHANGED << flagLimit, len, streams, stripLimit, startByte,
                  results, tried, cause >>

\* All targets processed: Run returns.
Finish ==
  /\ pc = "loop" /\ argi > MaxArgs
  /\ pc' = "done"
  /\ UNCHANGED << flagLimit, len, streams, argi, stripLimit, startByte,
                  results, tried, dumped, cause >>

Next ==
  \/ OpenFail
  \/ ReadFail
  \/ CallDetect
  \/ Iterate
  \/ SliceOutOfRange
  \/ LoopExit
  \/ Dump
  \/ Finish

Spec == Init /\ [][Next]_vars

\* ----------------------------------------------------------- properties
\* Entry nm accepts contents[o:]: no error and a non-empty output.
Succeeds(nm, o) == ~Decompress(nm, o).err /\ Decompress(nm, o).out > 0

\* Offsets o <= len(contents) at which some entry accepts contents[o:].
Matching == { o \in 0..len : \E nm \in Names : Succeeds(nm, o) }

TriedSet == { tried[i] : i \in 1..Len(tried) }

ResultNames == [ i \in 1..Len(results) |-> results[i].Name ]

\* C1: every entry of the returned list carries the same StartByte, the
\* smallest offset below the effective limit at which some entry of the
\* registry accepts the rest of the input; if there is such an offset the
\* list is not empty.
C1_SingleMinimalOffset ==
  pc = "return" =>
    LET eff  == IF flagLimit < 0 THEN len ELSE flagLimit
        good == { o \in Matching : o < eff }
    IN  /\ \A i \in 1..Len(results) :
              /\ results[i].StartByte \in good
              /\ \A o \in good : results[i].StartByte <= o
        /\ (good # {} => results # << >>)

\* C1 witness: a stream behind one garbage byte is reported at offset 1
\* although the limit allows later offsets.
C1_Witness ==
  /\ pc = "return" /\ results # << >>
  /\ results[1].StartByte = 1
  /\ flagLimit > 1

\* C2: the returned list names exactly the entries that accept the input at
\* the winning offset, once each, in registration order.
C2_AllMatchesInRegistryOrder ==
  (pc = "return" /\ results # << >>) =>
    LET o == results[1].StartByte
        Accepts(nm) == Succeeds(nm, o)
    IN  ResultNames = SelectSeq(decompressionFunctions, Accepts)

\* C2 witness: two entries accept the input at the same offset and both are
\* listed.
C2_Witness ==
  /\ pc = "return" /\ Len(results) = 2
  /\ results[1].StartByte = results[2].StartByte

\* C3: every returned entry records a qualifying attempt: its algorithm
\* accepts contents[StartByte:] without error, leaves no byte unread,
\* produces DecompressedSize > 0 bytes, and CompressedSize is
\* len(contents) - StartByte.
C3_EntriesAreSound ==
  pc = "return" =>
    \A i \in 1..Len(results) :
      LET e == results[i]
          d == Decode(e.Name, e.StartByte)
          r == Decompress(e.Name, e.StartByte)
      IN  /\ e.Name \in Names
          /\ e.StartByte \in 0..len
          /\ ~d.err /\ ~r.err
          /\ d.remaining = 0
          /\ e.DecompressedSize = d.out
          /\ e.DecompressedSize = r.out
          /\ e.DecompressedSize > 0
          /\ e.CompressedSize = len - e.StartByte

\* C3 witness: an entry found behind a garbage prefix, so that
\* CompressedSize differs from len(contents).
C3_Witness ==
  /\ pc = "return" /\ results # << >>
  /\ results[1].StartByte > 0
  /\ results[1].CompressedSize < len

\* C4: detectCompression never fails and never slices out of range,
\* whatever contents and offsetLimit are.
C4_NeverSlicesOutOfRange == cause # "slice"

\* C5: with empty contents the scan yields the empty list for any
\* offsetLimit.
C5_EmptyContentsEmptyResult ==
  len = 0 => (results = << >> /\ ~(pc = "panic" /\ cause = "slice"))

\* C6: with a negative offsetLimit the offsets sliced are 0, 1, 2, ... in
\* this order, all below len(contents), and the sweep ends either at the
\* first offset with a success or after offset len(contents)-1; nothing is
\* sliced out of range, and empty contents give no iteration and the empty
\* list.
C6_NegativeLimitSweep ==
  flagLimit < 0 =>
    /\ cause # "slice"
    /\ \A i \in 1..Len(tried) : tried[i] = i - 1 /\ tried[i] < len
    /\ \A i \in 1..(Len(tried) - 1) : tried[i] \notin Matching
    /\ (pc = "return" =>
          IF results = << >>
          THEN Len(tried) = len
          ELSE results[1].StartByte = tried[Len(tried)])
    /\ (len = 0 => tried = << >> /\ results = << >>)

\* C6 witness: an unlimited sweep over a non-matching input of maximal
\* length has sliced every offset and returned nothing.
C6_Witness ==
  /\ flagLimit < 0 /\ pc = "return" /\ results = << >>
  /\ len >= 2 /\ Len(tried) = len

\* C7: with a limit L >= 0 only offsets below L are sliced and no entry has
\* StartByte >= L; L = 0 gives the empty list, and so does 0 < L <= len
\* when no offset below L matches.
C7_LimitBoundsOffsets ==
  flagLimit >= 0 =>
    /\ \A o \in TriedSet : o < flagLimit
    /\ \A i \in 1..Len(results) : results[i].StartByte < flagLimit
    /\ (flagLimit = 0 => tried = << >> /\ results = << >>)
    /\ (/\ pc = "return"
        /\ 0 < flagLimit /\ flagLimit <= len
        /\ \A o \in Matching : o >= flagLimit
        => results = << >>)

\* C7 witness: the only matching offset is the limit itself, and the scan
\* has returned the empty list.
C7_Witness ==
  /\ pc = "return" /\ results = << >>
  /\ 0 < flagLimit /\ flagLimit <= len
  /\ flagLimit \in Matching

\* C8: all scans of the same contents under the same limit print the same
\* list.
C8_RunsAgree ==
  \A i, j \in 1..Len(dumped) : dumped[i].results = dumped[j].results

\* C8 witness: the same target was scanned twice and a match was printed.
C8_Witness ==
  /\ Len(dumped) = 2
  /\ dumped[1].arg # dumped[2].arg
  /\ dumped[2].results # << >>

\* C9 (as stated): every closure of the registry, snappy-block included,
\* compares the remaining buffer length with zero once its decoder has
\* finished without error, and returns an error on left-over bytes.
C9_EveryClosureChecksLength ==
  \A o \in TriedSet : \A nm \in Names :
    ~Decode(nm, o).err =>
      /\ Decompress(nm, o).lenChecked
      /\ (Decode(nm, o).remaining > 0 => Decompress(nm, o).err)

\* C9 (amended): every closure returns an error when its decoder finished
\* without error but left bytes unread, and every closure except
\* snappy-block establishes this by comparing the remaining buffer length
\* with zero.
C9_LeftoverBytesRejected ==
  \A o \in TriedSet : \A nm \in Names :
    ~Decode(nm, o).err =>
      /\ (Decode(nm, o).remaining > 0 => Decompress(nm, o).err)
      /\ (nm # "snappy-block" => Decompress(nm, o).lenChecked)

\* C9 witness: a decoder has finished without error on a tried slice with
\* bytes left over, and its closure returned an error.
C9_Witness ==
  \E o \in TriedSet : \E nm \in Names :
    /\ ~Decode(nm, o).err
    /\ Decode(nm, o).remaining > 0
    /\ Decompress(nm, o).err

\* C10: a target whose input cannot be opened or read does not stop the
\* run: the run never ends on such a failure while later targets are still
\* unprocessed.
C10_FailureIsPerTarget ==
  ~(pc = "panic" /\ cause \in { "open", "read" } /\ argi < MaxArgs)
====
